---------------------------- MODULE Spec2Model ----------------------------
(***************************************************************************)
(* A model of libhtml (src/html.go): the node model and the rendering      *)
(* engine.                                                                 *)
(*                                                                         *)
(* Go strings are sequences of one-character strings, so that escaping,    *)
(* formatting and concatenation are computed character by character.       *)
(* Nodes live in a heap (a sequence of records, a node's identity is its   *)
(* index), the way Go allocates them behind pointers; the nil Node is NIL. *)
(* Render is one synchronous recursive call chain: the Render action       *)
(* computes the whole traversal, threading the sink through it.            *)
(***************************************************************************)
EXTENDS Naturals, Sequences, FiniteSets, TLC

VARIABLES
    heap,     \* the nodes built so far: heap[id] is the record behind pointer id
    call,     \* history: the latest call of the builder, with its arguments
    last,     \* history: for each key, the value of the latest Attribute call
              \* on the node built last that gave the key a non-empty value
    mixed,    \* history: whether AttributeIf was called on the node built last
    given,    \* history: the children list given to the constructor of the node
              \* built last or, if Children was called on it, to the latest call
    root,     \* the node Render was called on (NIL: Render not called yet)
    out,      \* the sink: the characters it has accepted
    writes,   \* history: every Write call on the sink, [frag, ok]
    ev,       \* history: Render calls entered, thunks and transforms invoked
    ret       \* what the top-level Render returned

vars == <<heap, call, last, mixed, given, root, out, writes, ev, ret>>

(***************************************************************************)
(* Bounds of the model.                                                    *)
(***************************************************************************)
MaxPieces == 3     \* pieces an input string of the escaper is made of
MaxChildren == 2   \* length of a children list
MaxItems == 2      \* items of a Map
MaxWrites == 10    \* the latest Write call that a sink may refuse

NIL == 0

(***************************************************************************)
(* Strings.                                                                *)
(***************************************************************************)
RECURSIVE Concat(_)
Concat(ss) == IF ss = <<>> THEN <<>> ELSE Head(ss) \o Concat(Tail(ss))

SeqsUpTo(S, n) == UNION {[1..k -> S] : k \in 0..n}

\* The return values of Render: the nil error, the sink's write error, and
\* the two ways the Go runtime ends a Render that does not return.
ErrNil == "nil"
ErrWrite == "EIO"
Panic == "panic: nil pointer dereference"
Overflow == "fatal: stack overflow"
NotCalled == "not called"

(***************************************************************************)
(* html.EscapeString, as called by text.Render: the standard library's     *)
(* replacer maps each character on its own.                                *)
(***************************************************************************)
EscapeChar(c) ==
    CASE c = "&"  -> <<"&", "a", "m", "p", ";">>
      [] c = "'"  -> <<"&", "#", "3", "9", ";">>
      [] c = "<"  -> <<"&", "l", "t", ";">>
      [] c = ">"  -> <<"&", "g", "t", ";">>
      [] c = "\"" -> <<"&", "#", "3", "4", ";">>
      [] OTHER    -> <<c>>

\* Faulty variant: the apostrophe is left alone.
EscapeStringNoApos(s) ==
    Concat([i \in 1..Len(s) |-> IF s[i] = "'" THEN <<"'">> ELSE EscapeChar(s[i])])

\* Faulty variant: successive whole-string replacements with the ampersand last, so
\* that the ampersands of the entities already written are escaped again.
EscapeStringAmpLast(s) ==
    LET first == Concat([i \in 1..Len(s) |->
                          IF s[i] = "&" THEN <<"&">> ELSE EscapeChar(s[i])])
    IN  Concat([i \in 1..Len(first) |->
                 IF first[i] = "&" THEN EscapeChar("&") ELSE <<first[i]>>])

\* Faulty variant: the double quote becomes the named entity.
EscapeStringQuot(s) ==
    Concat([i \in 1..Len(s) |->
             IF s[i] = "\"" THEN <<"&", "q", "u", "o", "t", ";">>
                            ELSE EscapeChar(s[i])])

EscapeString(s) == Concat([i \in 1..Len(s) |-> EscapeChar(s[i])])

(***************************************************************************)
(* The sink (io.Writer).  st is the state threaded through a Render:       *)
(*   out, writes, ev as the variables; err the error so far; fail the set  *)
(*   of Write calls (by number) that the sink refuses; ord as described    *)
(*   with the renderer.                                                    *)
(***************************************************************************)
Sink(fail, ord) ==
    [out |-> <<>>, writes |-> <<>>, ev |-> <<>>, err |-> ErrNil,
     fail |-> fail, ord |-> ord]

\* Faulty variant: a refused write discards what the sink had accepted.
WriteRollsBack(st, frag) ==
    LET k == Len(st.writes) + 1
        ok == k \notin st.fail
    IN  [st EXCEPT !.writes = Append(@, [frag |-> frag, ok |-> ok]),
                   !.out = IF ok THEN @ \o frag ELSE <<>>,
                   !.err = IF ok THEN @ ELSE ErrWrite]

Write(st, frag) ==
    LET k == Len(st.writes) + 1
        ok == k \notin st.fail
    IN  [st EXCEPT !.writes = Append(@, [frag |-> frag, ok |-> ok]),
                   !.out = IF ok THEN @ \o frag ELSE @,
                   !.err = IF ok THEN @ ELSE ErrWrite]

Note(st, e) == [st EXCEPT !.ev = Append(@, e)]

Raise(st, e) == [st EXCEPT !.err = e]

(***************************************************************************)
(* Leaf nodes.                                                             *)
(***************************************************************************)
\* Text(content)
Text(content) == [kind |-> "text", content |-> content]

\* Raw(content)
Raw(content) == [kind |-> "raw", content |-> content]

\* Faulty variant: raw content routed through the escaper.
RawRenderEscaped(n, st) == Write(st, EscapeString(n.content))

\* (*text).Render
TextRender(n, st) == Write(st, EscapeString(n.content))

\* (*raw).Render
RawRender(n, st) == Write(st, n.content)


(***************************************************************************)
(* The other node variants.  A func() Node value is a record: isNil says   *)
(* whether it is the nil func, ret is the node it returns when invoked.    *)
(* A transform is a func(item) Node: table[item] is what it returns.       *)
(***************************************************************************)
Func(r) == [isNil |-> FALSE, ret |-> r]

NilFunc == [isNil |-> TRUE, ret |-> NIL]

\* If(condition, then)
If(condition, then) == [kind |-> "if", condition |-> condition, then |-> then]

\* IfFunc(condition, thenFn)
IfFunc(condition, thenFn) ==
    [kind |-> "ifFunc", condition |-> condition, thenFn |-> thenFn]

\* IfElse(condition, then, else_)
IfElse(condition, then, else_) ==
    [kind |-> "ifElse", condition |-> condition, then |-> then, else_ |-> else_]

\* IfElseFunc(condition, thenFn, elseFn)
IfElseFunc(condition, thenFn, elseFn) ==
    [kind |-> "ifElseFunc", condition |-> condition,
     thenFn |-> thenFn, elseFn |-> elseFn]

\* Map(items, transform)
Map(items, transform) == [kind |-> "map", items |-> items, transform |-> transform]

\* Group(children...)
Group(children) == [kind |-> "group", children |-> children]

\* Document(children...)
Document(children) == [kind |-> "document", children |-> children]

\* make(map[string]string)
EmptyMap == [k \in {} |-> <<>>]

\* NewTag(name, isVoid, children)
NewTag(name, isVoid, children) ==
    [kind |-> "tag", name |-> name, isVoid |-> isVoid,
     children |-> children, attributes |-> EmptyMap]

\* attributes[key]: the empty string for a key not in the map
MapGet(m, key) == IF key \in DOMAIN m THEN m[key] ELSE <<>>

\* attributes[key] = value
MapSet(m, key, value) ==
    [k \in DOMAIN m \cup {key} |-> IF k = key THEN value ELSE m[k]]

(***************************************************************************)
(* Setters: each maps the record of the receiver to its record after the   *)
(* call (the receiver is mutated in place and returned).                   *)
(***************************************************************************)
\* Faulty variant: the empty value is stored like any other.
AttributeStoresEmpty(t, key, value) ==
    [t EXCEPT !.attributes = MapSet(@, key, value)]

\* Faulty variant: the empty value removes the key.
AttributeEmptyDeletes(t, key, value) ==
    IF value = <<>>
    THEN [t EXCEPT !.attributes = [k \in DOMAIN @ \ {key} |-> @[k]]]
    ELSE [t EXCEPT !.attributes = MapSet(@, key, value)]

\* Faulty variant: the first value written for a key is kept.
AttributeFirstWins(t, key, value) ==
    IF value = <<>> \/ key \in DOMAIN t.attributes
    THEN t
    ELSE [t EXCEPT !.attributes = MapSet(@, key, value)]

\* (*Tag).Attribute
Attribute(t, key, value) ==
    IF value = <<>>
    THEN t
    ELSE [t EXCEPT !.attributes = MapSet(@, key, value)]

\* (*Tag).AttributeIf
AttributeIf(t, cond, key, value) ==
    IF cond
    THEN [t EXCEPT !.attributes = MapSet(@, key, value)]
    ELSE t

\* Faulty variant: the new children are added after the present ones.
ChildrenAppends(n, children) == [n EXCEPT !.children = @ \o children]

\* (*Tag).Children and (*document).Children
Children(n, children) == [n EXCEPT !.children = children]

(***************************************************************************)
(* Typed elements and their per-attribute setters: an element type embeds  *)
(* *Tag, and each setter calls Attribute with the key it is written for.   *)
(***************************************************************************)
RECURSIVE Join(_, _)
\* strings.Join(values, sep)
Join(values, sep) ==
    IF values = <<>> THEN <<>>
    ELSE IF Len(values) = 1 THEN values[1]
    ELSE values[1] \o sep \o Join(Tail(values), sep)

KeyClass == <<"c", "l", "a", "s", "s">>
KeyName == <<"n", "a", "m", "e">>
KeyId == <<"i", "d">>

\* Input(children...)
Input(children) == NewTag(<<"i", "n", "p", "u", "t">>, TRUE, children)

\* (*Tag).Class
Class(e, values) == Attribute(e, KeyClass, Join(values, <<" ">>))

\* (*Tag).ClassIf
ClassIf(e, condition, value) ==
    IF condition THEN Attribute(e, KeyClass, value) ELSE e

\* (*input).Name
Name(e, values) == Attribute(e, KeyName, Join(values, <<" ">>))

\* (*input).NameIf: the body does not test condition
NameIf(e, condition, value) == Attribute(e, KeyName, value)

\* (*input).Id
Id(e, values) == Attribute(e, KeyId, Join(values, <<" ">>))

\* (*input).IdIf: the body does not test condition
IdIf(e, condition, value) == Attribute(e, KeyId, value)

KeySrc == <<"s", "r", "c">>

\* Script(children...)
Script(children) == NewTag(<<"s", "c", "r", "i", "p", "t">>, FALSE, children)

\* (*script).Src
Src(e, value) == Attribute(e, KeySrc, value)

\* (*script).SrcIf: the key is written "Src"
SrcIf(e, condition, value) ==
    IF condition THEN Attribute(e, <<"S", "r", "c">>, value) ELSE e

(***************************************************************************)
(* Rendering.  Render(h, id, st, depth) is h[id].Render(w): it returns the *)
(* sink state after the call.  st.err # ErrNil after a call means the call *)
(* returned that error (or did not return: Panic, Overflow), and every     *)
(* caller tests it as the source does.                                     *)
(*                                                                         *)
(* depth counts the Render frames on the Go stack.  A chain of more frames *)
(* than the heap has nodes visits a node twice: the recursion never ends   *)
(* and the runtime stops it with a stack overflow.                         *)
(*                                                                         *)
(* st.ord is the order in which Go's runtime iterates over the attribute   *)
(* maps during this Render: the language leaves it to the runtime, so the  *)
(* Render action draws it.  ord[v] is a ranking of the keys for the v-th   *)
(* map iteration of the traversal.                                         *)
(***************************************************************************)
Perms(S) ==
    {p \in [1..Cardinality(S) -> S] : \A i, j \in DOMAIN p : i # j => p[i] # p[j]}

\* for key, value := range e.attributes: the keys in this iteration's order
RangeKeys(st, attributes) ==
    LET v == Cardinality({i \in DOMAIN st.ev : st.ev[i][1] = "range"})
        rank == st.ord[((v - 1) % Len(st.ord)) + 1]
    IN  SelectSeq(rank, LAMBDA k : k \in DOMAIN attributes)

\* Faulty variant: the attribute value goes through the escaper.
AttrFragmentEscaped(key, value) ==
    <<" ">> \o key \o <<"=", "\"">> \o EscapeString(value) \o <<"\"">>

\* fmt.Fprintf(w, " %s=\"%s\"", key, value)
AttrFragment(key, value) == <<" ">> \o key \o <<"=", "\"">> \o value \o <<"\"">>

RECURSIVE WriteAttributes(_, _, _)
\* the attribute loop of (*Tag).Render
WriteAttributes(st, keys, attributes) ==
    IF keys = <<>>
    THEN st
    ELSE LET s1 == Write(st, AttrFragment(Head(keys), attributes[Head(keys)]))
         IN  IF s1.err # ErrNil
             THEN s1
             ELSE WriteAttributes(s1, Tail(keys), attributes)

RECURSIVE Render(_, _, _, _)
RECURSIVE RangeChildren(_, _, _, _)
RECURSIVE RangeItems(_, _, _, _, _)

\* x.Render(w) on an interface value x: a nil x panics
Call(h, id, st, depth) ==
    IF id = NIL THEN Raise(st, Panic) ELSE Render(h, id, st, depth + 1)

\* Faulty variant: a nil child is rendered like any other.
RangeChildrenNoNilCheck(h, children, st, depth) ==
    IF children = <<>>
    THEN st
    ELSE LET s1 == Call(h, Head(children), st, depth)
         IN  IF s1.err # ErrNil
             THEN s1
             ELSE RangeChildren(h, Tail(children), s1, depth)

\* Faulty variant: the children are rendered last to first.
RangeChildrenReversed(h, children, st, depth) ==
    IF children = <<>>
    THEN st
    ELSE LET c == children[Len(children)]
             s1 == IF c = NIL THEN st ELSE Call(h, c, st, depth)
         IN  IF s1.err # ErrNil
             THEN s1
             ELSE RangeChildren(h, SubSeq(children, 1, Len(children) - 1), s1, depth)

\* Faulty variant: the error of a child is dropped and the loop goes on.
RangeChildrenKeepsGoing(h, children, st, depth) ==
    IF children = <<>>
    THEN st
    ELSE IF Head(children) = NIL
         THEN RangeChildren(h, Tail(children), st, depth)
         ELSE LET s1 == Call(h, Head(children), st, depth)
              IN  IF s1.err \in {Panic, Overflow}
                  THEN s1
                  ELSE RangeChildren(h, Tail(children), s1, depth)

\* for _, child := range children { if child == nil { continue } ... }
RangeChildren(h, children, st, depth) ==
    IF children = <<>>
    THEN st
    ELSE IF Head(children) = NIL
         THEN RangeChildren(h, Tail(children), st, depth)
         ELSE LET s1 == Call(h, Head(children), st, depth)
              IN  IF s1.err # ErrNil
                  THEN s1
                  ELSE RangeChildren(h, Tail(children), s1, depth)

\* calling a func value: the nil func panics
Invoke(fn, st, e) == IF fn.isNil THEN Raise(st, Panic) ELSE Note(st, e)

\* Faulty variant: a document without children writes nothing.
DocumentRenderBare(h, id, st, depth) ==
    LET s1 == Write(st, <<"<", "!", "D", "O", "C", "T", "Y", "P", "E", " ",
                          "h", "t", "m", "l", ">">>)
    IN  IF h[id].children = <<>>
        THEN st
        ELSE IF s1.err # ErrNil
             THEN s1
             ELSE RangeChildren(h, h[id].children, s1, depth)

\* (*document).Render
DocumentRender(h, id, st, depth) ==
    LET s1 == Write(st, <<"<", "!", "D", "O", "C", "T", "Y", "P", "E", " ",
                          "h", "t", "m", "l", ">">>)
    IN  IF s1.err # ErrNil
        THEN s1
        ELSE RangeChildren(h, h[id].children, s1, depth)

\* Faulty variant: the then node is rendered whatever the condition.
IfRenderAlways(h, id, st, depth) == Call(h, h[id].then, st, depth)

\* (*if_).Render
IfRender(h, id, st, depth) ==
    IF h[id].condition THEN Call(h, h[id].then, st, depth) ELSE st

\* (*ifFunc).Render
IfFuncRender(h, id, st, depth) ==
    IF h[id].condition /\ ~h[id].thenFn.isNil
    THEN LET s1 == Invoke(h[id].thenFn, st, <<"thenFn", id>>)
             node == h[id].thenFn.ret
         IN  IF node # NIL THEN Call(h, node, s1, depth) ELSE s1
    ELSE st

\* (*ifElse).Render
IfElseRender(h, id, st, depth) ==
    IF h[id].condition
    THEN Call(h, h[id].then, st, depth)
    ELSE Call(h, h[id].else_, st, depth)

\* Faulty variant: both thunks are invoked before the branch is chosen.
IfElseFuncRenderEager(h, id, st, depth) ==
    LET s1 == Invoke(h[id].thenFn, st, <<"thenFn", id>>)
        s2 == Invoke(h[id].elseFn, s1, <<"elseFn", id>>)
        node == IF h[id].condition THEN h[id].thenFn.ret ELSE h[id].elseFn.ret
    IN  IF s1.err # ErrNil THEN s1
        ELSE IF s2.err # ErrNil THEN s2
        ELSE IF node # NIL THEN Call(h, node, s2, depth) ELSE s2

\* (*ifElseFunc).Render
IfElseFuncRender(h, id, st, depth) ==
    IF h[id].condition /\ ~h[id].thenFn.isNil
    THEN LET s1 == Invoke(h[id].thenFn, st, <<"thenFn", id>>)
             node == h[id].thenFn.ret
         IN  IF node # NIL THEN Call(h, node, s1, depth) ELSE s1
    ELSE LET s1 == Invoke(h[id].elseFn, st, <<"elseFn", id>>)
         IN  IF s1.err # ErrNil
             THEN s1
             ELSE Call(h, h[id].elseFn.ret, s1, depth)

\* Faulty variant: the items are visited last to first.
RangeItemsReversed(h, id, items, st, depth) ==
    IF items = <<>>
    THEN st
    ELSE LET item == items[Len(items)]
             s1 == Invoke(h[id].transform, st, <<"transform", id, item>>)
         IN  IF s1.err # ErrNil
             THEN s1
             ELSE LET s2 == Call(h, h[id].transform.ret[item], s1, depth)
                  IN  IF s2.err # ErrNil
                      THEN s2
                      ELSE RangeItems(h, id, SubSeq(items, 1, Len(items) - 1),
                                      s2, depth)

\* Faulty variant: the error of an item's node is dropped and the loop goes on.
RangeItemsKeepsGoing(h, id, items, st, depth) ==
    IF items = <<>>
    THEN st
    ELSE LET s1 == Invoke(h[id].transform, st, <<"transform", id, Head(items)>>)
         IN  IF s1.err \in {Panic, Overflow}
             THEN s1
             ELSE LET s2 == Call(h, h[id].transform.ret[Head(items)], s1, depth)
                  IN  IF s2.err \in {Panic, Overflow}
                      THEN s2
                      ELSE RangeItems(h, id, Tail(items), s2, depth)

\* the loop of (*map_).Render
RangeItems(h, id, items, st, depth) ==
    IF items = <<>>
    THEN st
    ELSE LET s1 == Invoke(h[id].transform, st, <<"transform", id, Head(items)>>)
         IN  IF s1.err # ErrNil
             THEN s1
             ELSE LET node == h[id].transform.ret[Head(items)]
                      s2 == Call(h, node, s1, depth)
                  IN  IF s2.err # ErrNil
                      THEN s2
                      ELSE RangeItems(h, id, Tail(items), s2, depth)

\* (*map_).Render
MapRender(h, id, st, depth) == RangeItems(h, id, h[id].items, st, depth)

\* (*group).Render
GroupRender(h, id, st, depth) == RangeChildren(h, h[id].children, st, depth)

\* Faulty variant: a void tag is closed like any other, its children rendered.
TagRenderVoidIgnored(h, id, st, depth) ==
    LET e == h[id]
        s1 == Write(st, <<"<">> \o e.name)
        s2 == LET sr == Note(s1, <<"range", id>>)
              IN  WriteAttributes(sr, RangeKeys(sr, e.attributes), e.attributes)
        s3 == Write(s2, <<">">>)
        s4 == RangeChildren(h, e.children, s3, depth)
    IN  IF s1.err # ErrNil THEN s1
        ELSE IF s2.err # ErrNil THEN s2
        ELSE IF s3.err # ErrNil THEN s3
        ELSE IF s4.err # ErrNil THEN s4
        ELSE Write(s4, <<"<", "/">> \o e.name \o <<">">>)

\* Faulty variant: a space separates the opening tag from the children.
TagRenderPadded(h, id, st, depth) ==
    LET e == h[id]
        s1 == Write(st, <<"<">> \o e.name)
        s2 == LET sr == Note(s1, <<"range", id>>)
              IN  WriteAttributes(sr, RangeKeys(sr, e.attributes), e.attributes)
        s3 == Write(s2, <<">", " ">>)
        s4 == RangeChildren(h, e.children, s3, depth)
    IN  IF s1.err # ErrNil THEN s1
        ELSE IF s2.err # ErrNil THEN s2
        ELSE IF e.isVoid THEN Write(s2, <<"/", ">">>)
        ELSE IF s3.err # ErrNil THEN s3
        ELSE IF s4.err # ErrNil THEN s4
        ELSE Write(s4, <<"<", "/">> \o e.name \o <<">">>)

\* Faulty variant: the closing tag of a non-void tag is not written.
TagRenderUnclosed(h, id, st, depth) ==
    LET e == h[id]
        s1 == Write(st, <<"<">> \o e.name)
        s2 == LET sr == Note(s1, <<"range", id>>)
              IN  WriteAttributes(sr, RangeKeys(sr, e.attributes), e.attributes)
        s3 == Write(s2, <<">">>)
        s4 == RangeChildren(h, e.children, s3, depth)
    IN  IF s1.err # ErrNil THEN s1
        ELSE IF s2.err # ErrNil THEN s2
        ELSE IF e.isVoid THEN Write(s2, <<"/", ">">>)
        ELSE IF s3.err # ErrNil THEN s3
        ELSE s4

\* (*Tag).Render
TagRender(h, id, st, depth) ==
    LET e == h[id]
        s1 == Write(st, <<"<">> \o e.name)
        s2 == LET sr == Note(s1, <<"range", id>>)
              IN  WriteAttributes(sr, RangeKeys(sr, e.attributes), e.attributes)
        s3 == Write(s2, <<">">>)
        s4 == RangeChildren(h, e.children, s3, depth)
    IN  IF s1.err # ErrNil THEN s1
        ELSE IF s2.err # ErrNil THEN s2
        ELSE IF e.isVoid THEN Write(s2, <<"/", ">">>)
        ELSE IF s3.err # ErrNil THEN s3
        ELSE IF s4.err # ErrNil THEN s4
        ELSE Write(s4, <<"<", "/">> \o e.name \o <<">">>)

\* Node.Render: the dynamic dispatch on the node's type
Render(h, id, st, depth) ==
    IF depth > Len(h)
    THEN Raise(st, Overflow)
    ELSE LET s0 == Note(st, <<"Render", id>>)
             k == h[id].kind
         IN  CASE k = "text"       -> TextRender(h[id], s0)
               [] k = "raw"        -> RawRender(h[id], s0)
               [] k = "if"         -> IfRender(h, id, s0, depth)
               [] k = "ifFunc"     -> IfFuncRender(h, id, s0, depth)
               [] k = "ifElse"     -> IfElseRender(h, id, s0, depth)
               [] k = "ifElseFunc" -> IfElseFuncRender(h, id, s0, depth)
               [] k = "map"        -> MapRender(h, id, s0, depth)
               [] k = "group"      -> GroupRender(h, id, s0, depth)
               [] k = "tag"        -> TagRender(h, id, s0, depth)
               [] k = "document"   -> DocumentRender(h, id, s0, depth)

(***************************************************************************)
(* The Render call of a program: Render on the node it built last, into a  *)
(* fresh sink.  fails is the set of sinks to draw from, each given by the  *)
(* set of Write calls it refuses; the attribute map iteration orders are   *)
(* drawn too.  A program of this model renders once.                       *)
(***************************************************************************)
Range(f) == {f[x] : x \in DOMAIN f}

\* The node built last: the receiver of the setters, and the node rendered.
Top(h) == IF h = <<>> THEN {} ELSE {Len(h)}

KeysOf(h) ==
    UNION {DOMAIN h[i].attributes : i \in {j \in DOMAIN h : h[j].kind = "tag"}}

Orders(h) ==
    LET many == {i \in DOMAIN h :
                    h[i].kind = "tag" /\ Cardinality(DOMAIN h[i].attributes) > 1}
        n == IF many = {} THEN 1 ELSE Cardinality(many)
    IN  [1..n -> Perms(KeysOf(h))]

\* Faulty variant: rendering empties the children of the node rendered.
RenderToConsuming(fails) ==
    /\ root = NIL
    /\ \E r \in Top(heap), fail \in fails, ord \in Orders(heap) :
          LET st == Render(heap, r, Sink(fail, ord), 1)
          IN  /\ root' = r
              /\ out' = st.out
              /\ writes' = st.writes
              /\ ev' = st.ev
              /\ ret' = st.err
              /\ heap' = IF "children" \in DOMAIN heap[r]
                         THEN [heap EXCEPT ![r] = Children(@, <<>>)]
                         ELSE heap
    /\ UNCHANGED <<call, last, mixed, given>>

RenderTo(fails) ==
    /\ root = NIL
    /\ \E r \in Top(heap), fail \in fails, ord \in Orders(heap) :
          LET st == Render(heap, r, Sink(fail, ord), 1)
          IN  /\ root' = r
              /\ out' = st.out
              /\ writes' = st.writes
              /\ ev' = st.ev
              /\ ret' = st.err
    /\ UNCHANGED <<heap, call, last, mixed, given>>

\* w never fails
RenderOk == RenderTo({{}})

NoRender ==
    /\ root = NIL
    /\ out = <<>>
    /\ writes = <<>>
    /\ ev = <<>>
    /\ ret = NotCalled

(***************************************************************************)
(* Building.  The programs of Spec start from a few parts already built    *)
(* (Parts: two texts, an element with an attribute and two children, a     *)
(* lazy conditional and a map), assemble one node over them, configure it  *)
(* with setters and render it.  The arguments of a call are drawn from the *)
(* lists of at most MaxChildren entries, each a part or nil, so that a     *)
(* part may appear twice and nil anywhere.                                 *)
(***************************************************************************)
Items == {1, 2}

Parts ==
    <<Text(<<"a">>),
      Text(<<"<">>),
      Attribute(NewTag(<<"b">>, FALSE, <<1, 2>>), <<"x">>, <<"b">>),
      IfFunc(TRUE, Func(2)),
      Map(<<1, 2>>, Func([i \in Items |-> i]))>>

\* The argument lists of at most n entries: nodes built before id, and nil.
ArgLists(id, n) == SeqsUpTo(1..(id - 1) \cup {NIL}, n)

\* The func() Node values a call can be given: the nil func, or a func
\* returning x.
Funcs(x) == IF x = NIL THEN {NilFunc, Func(NIL)} ELSE {Func(x)}

\* old: the value the key had when the call was made (empty: none);
\* ret: the pointer the call returned
NoCall ==
    [op |-> "none", cond |-> FALSE, key |-> <<>>, value |-> <<>>, old |-> <<>>,
     ret |-> NIL]

\* A constructor call returning n
Alloc(n) ==
    /\ root = NIL
    /\ heap = Parts
    /\ heap' = Append(heap, n)
    /\ call' = [NoCall EXCEPT !.op = n.kind, !.ret = Len(heap) + 1]
    /\ last' = EmptyMap
    /\ mixed' = FALSE
    /\ given' = IF "children" \in DOMAIN n THEN n.children ELSE <<>>
    /\ UNCHANGED <<root, out, writes, ev, ret>>

TagKinds == {<<<<"p">>, FALSE>>, <<<<"b", "r">>, TRUE>>}

CallIf(conds) ==
    \E c \in conds, cs \in ArgLists(Len(heap) + 1, 1) :
        Len(cs) = 1 /\ Alloc(If(c, cs[1]))

CallIfElse(conds) ==
    \E c \in conds, cs \in ArgLists(Len(heap) + 1, 2) :
        Len(cs) = 2 /\ Alloc(IfElse(c, cs[1], cs[2]))

CallIfFunc(conds) ==
    \E c \in conds, cs \in ArgLists(Len(heap) + 1, 1) :
        Len(cs) = 1 /\ \E f \in Funcs(cs[1]) : Alloc(IfFunc(c, f))

CallIfElseFunc(conds) ==
    \E c \in conds, cs \in ArgLists(Len(heap) + 1, 2) :
        Len(cs) = 2 /\ \E f \in Funcs(cs[1]), g \in Funcs(cs[2]) :
                          Alloc(IfElseFunc(c, f, g))

CallMap(itemLists) ==
    \E items \in itemLists, cs \in ArgLists(Len(heap) + 1, 2) :
        Len(cs) = 2 /\ Alloc(Map(items, Func([i \in Items |-> cs[i]])))

CallGroup == \E cs \in ArgLists(Len(heap) + 1, MaxChildren) : Alloc(Group(cs))

CallDocument == \E cs \in ArgLists(Len(heap) + 1, MaxChildren) : Alloc(Document(cs))

CallNewTag ==
    \E k \in TagKinds, cs \in ArgLists(Len(heap) + 1, MaxChildren) :
        Alloc(NewTag(k[1], k[2], cs))

\* t.Children(cs...) on a tag or a document
CallChildren ==
    /\ root = NIL
    /\ \E t \in Top(heap), cs \in ArgLists(Len(heap), MaxChildren) :
          /\ heap[t].kind \in {"tag", "document"}
          /\ heap' = [heap EXCEPT ![t] = Children(@, cs)]
          /\ call' = [NoCall EXCEPT !.op = "Children", !.ret = t]
          /\ given' = cs
    /\ UNCHANGED <<last, mixed, root, out, writes, ev, ret>>

\* t.Attribute(key, value), with key and value drawn from keys and values
CallAttribute(keys, values) ==
    /\ root = NIL
    /\ \E t \in Top(heap), key \in keys, value \in values :
          /\ heap[t].kind = "tag"
          /\ heap' = [heap EXCEPT ![t] = Attribute(@, key, value)]
          /\ call' = [op |-> "Attribute", cond |-> TRUE, key |-> key, value |-> value,
                      old |-> MapGet(heap[t].attributes, key), ret |-> t]
          /\ last' = IF value = <<>> THEN last ELSE MapSet(last, key, value)
    /\ UNCHANGED <<mixed, given, root, out, writes, ev, ret>>

\* t.AttributeIf(cond, key, value)
CallAttributeIf(keys, values) ==
    /\ root = NIL
    /\ \E t \in Top(heap), cond \in BOOLEAN, key \in keys, value \in values :
          /\ heap[t].kind = "tag"
          /\ heap' = [heap EXCEPT ![t] = AttributeIf(@, cond, key, value)]
          /\ call' = [op |-> "AttributeIf", cond |-> cond, key |-> key, value |-> value,
                      old |-> MapGet(heap[t].attributes, key), ret |-> t]
          /\ mixed' = TRUE
    /\ UNCHANGED <<last, given, root, out, writes, ev, ret>>

\* A typed setter call on the node built last, leaving it as t2
TypedCall(op, condition, key, value, t2) ==
    /\ root = NIL
    /\ heap' = [heap EXCEPT ![Len(heap)] = t2]
    /\ call' = [op |-> op, cond |-> condition, key |-> key, value |-> value,
                old |-> MapGet(heap[Len(heap)].attributes, key), ret |-> Len(heap)]
    /\ mixed' = TRUE
    /\ UNCHANGED <<last, given, root, out, writes, ev, ret>>

IsInput(n) == n.kind = "tag" /\ n.name = Input(<<>>).name

\* t.Class(values...)
CallClass(values) ==
    \E t \in Top(heap), vs \in SeqsUpTo(values, 2) :
        /\ heap[t].kind = "tag"
        /\ TypedCall("Class", TRUE, KeyClass, Join(vs, <<" ">>), Class(heap[t], vs))

\* t.ClassIf(condition, value)
CallClassIf(values) ==
    \E t \in Top(heap), c \in BOOLEAN, v \in values :
        /\ heap[t].kind = "tag"
        /\ TypedCall("ClassIf", c, KeyClass, v, ClassIf(heap[t], c, v))

\* e.NameIf(condition, value) on an input element
CallNameIf(values) ==
    \E t \in Top(heap), c \in BOOLEAN, v \in values :
        /\ IsInput(heap[t])
        /\ TypedCall("NameIf", c, KeyName, v, NameIf(heap[t], c, v))

\* e.IdIf(condition, value) on an input element
CallIdIf(values) ==
    \E t \in Top(heap), c \in BOOLEAN, v \in values :
        /\ IsInput(heap[t])
        /\ TypedCall("IdIf", c, KeyId, v, IdIf(heap[t], c, v))

IsScript(n) == n.kind = "tag" /\ n.name = Script(<<>>).name

\* e.Src(value) on a script element
CallSrc(values) ==
    \E t \in Top(heap), v \in values :
        /\ IsScript(heap[t])
        /\ TypedCall("Src", TRUE, KeySrc, v, Src(heap[t], v))

\* e.SrcIf(condition, value) on a script element
CallSrcIf(values) ==
    \E t \in Top(heap), c \in BOOLEAN, v \in values :
        /\ IsScript(heap[t])
        /\ TypedCall("SrcIf", c, KeySrc, v, SrcIf(heap[t], c, v))

\* t.Children(cs...) with any node built so far, t itself included
CallChildrenAny ==
    /\ root = NIL
    /\ \E t \in Top(heap), cs \in ArgLists(Len(heap) + 1, 1) :
          /\ heap[t].kind \in {"tag", "document"}
          /\ heap' = [heap EXCEPT ![t] = Children(@, cs)]
          /\ call' = [NoCall EXCEPT !.op = "Children", !.ret = t]
          /\ given' = cs
    /\ UNCHANGED <<last, mixed, root, out, writes, ev, ret>>

Keys == {<<"x">>, <<"y">>}

Values == {<<>>, <<"a">>, <<"b">>}

NoCalls ==
    /\ call = NoCall
    /\ last = EmptyMap
    /\ mixed = FALSE
    /\ given = <<>>

Init ==
    /\ heap = Parts
    /\ NoCalls
    /\ NoRender

Next ==
    \/ CallGroup
    \/ CallDocument
    \/ CallNewTag
    \/ CallChildren
    \/ CallAttribute(Keys, {<<"a">>})
    \/ RenderOk

Spec == Init /\ [][Next]_vars

(***************************************************************************)
(* SpecCond: the combinators.  The program builds one If, IfElse, IfFunc,  *)
(* IfElseFunc or Map over the parts (a branch may be nil, a thunk may be   *)
(* the nil func or return nil, a transform may return nil) and renders it. *)
(***************************************************************************)
ItemLists == SeqsUpTo(Items, MaxItems)

NextCond ==
    \/ CallIf(BOOLEAN)
    \/ CallIfElse(BOOLEAN)
    \/ CallIfFunc(BOOLEAN)
    \/ CallIfElseFunc(BOOLEAN)
    \/ CallMap(ItemLists)
    \/ RenderOk

SpecCond == Init /\ [][NextCond]_vars

(***************************************************************************)
(* SpecFail: rendering into sinks that fail.  The program builds one node  *)
(* over the parts and renders it into a sink that accepts every write, or  *)
(* refuses one write, or refuses every write from some write on.           *)
(***************************************************************************)
Sinks ==
    {{}} \cup {{k} : k \in 1..MaxWrites} \cup {k..MaxWrites : k \in 1..MaxWrites}

NextFail ==
    \/ CallGroup
    \/ CallDocument
    \/ CallNewTag
    \/ CallIfElse(BOOLEAN)
    \/ CallMap(ItemLists)
    \/ CallAttribute(Keys, {<<"a">>})
    \/ RenderTo(Sinks)

SpecFail == Init /\ [][NextFail]_vars

(***************************************************************************)
(* SpecChain: fluent chains.  The program is t := NewTag("p", false, nil)  *)
(* or t := Document(), then setter calls whose receiver is t or the        *)
(* pointer the latest setter call returned, then Render on either.  A      *)
(* setter call assigns to the fields of its receiver and returns the       *)
(* receiver.                                                               *)
(***************************************************************************)
\* Faulty variant: the setter works on a copy and returns the copy.
SetterCallCopies(h, t, n2) == [heap |-> Append(h, n2), ret |-> Len(h) + 1]

\* A setter call on *t that leaves the record n2 behind t: return t
SetterCall(h, t, n2) == [heap |-> [h EXCEPT ![t] = n2], ret |-> t]

\* The pointer t of the program.
T == Len(Parts) + 1

\* The pointers the program holds: t, and x from x := t.Setter(..)
Handles == {T} \cup ({call.ret} \ {NIL})

Chain(op, condition, key, value, r, n2) ==
    /\ root = NIL
    /\ LET c == SetterCall(heap, r, n2)
       IN  /\ heap' = c.heap
           /\ call' = [op |-> op, cond |-> condition, key |-> key, value |-> value,
                       old |-> IF "attributes" \in DOMAIN heap[r]
                               THEN MapGet(heap[r].attributes, key) ELSE <<>>,
                       ret |-> c.ret]
    /\ UNCHANGED <<last, root, out, writes, ev, ret>>

ChainAttribute ==
    \E r \in Handles, value \in {<<"a">>, <<"b">>} :
        /\ heap[r].kind = "tag"
        /\ Chain("Attribute", TRUE, <<"x">>, value, r, Attribute(heap[r], <<"x">>, value))
        /\ UNCHANGED <<mixed, given>>

ChainAttributeIf ==
    \E r \in Handles, c \in BOOLEAN :
        /\ heap[r].kind = "tag"
        /\ Chain("AttributeIf", c, <<"y">>, <<"a">>, r,
                 AttributeIf(heap[r], c, <<"y">>, <<"a">>))
        /\ mixed' = TRUE
        /\ UNCHANGED given

ChainClass ==
    \E r \in Handles, vs \in {<<<<"a">>>>, <<<<"a">>, <<"b">>>>} :
        /\ heap[r].kind = "tag"
        /\ Chain("Class", TRUE, KeyClass, Join(vs, <<" ">>), r, Class(heap[r], vs))
        /\ mixed' = TRUE
        /\ UNCHANGED given

ChainClassIf ==
    \E r \in Handles, c \in BOOLEAN :
        /\ heap[r].kind = "tag"
        /\ Chain("ClassIf", c, KeyClass, <<"b">>, r, ClassIf(heap[r], c, <<"b">>))
        /\ mixed' = TRUE
        /\ UNCHANGED given

ChainChildren ==
    \E r \in Handles, cs \in ArgLists(T, 1) :
        /\ Chain("Children", TRUE, <<>>, <<>>, r, Children(heap[r], cs))
        /\ given' = cs
        /\ UNCHANGED mixed

\* r.Render(w) through one of the pointers, w never failing
RenderHandle ==
    /\ root = NIL
    /\ \E r \in Handles, ord \in Orders(heap) :
          LET st == Render(heap, r, Sink({}, ord), 1)
          IN  /\ root' = r
              /\ out' = st.out
              /\ writes' = st.writes
              /\ ev' = st.ev
              /\ ret' = st.err
    /\ UNCHANGED <<heap, call, last, mixed, given>>

InitChain ==
    /\ heap \in {Append(Parts, NewTag(<<"p">>, FALSE, <<>>)),
                  Append(Parts, Document(<<>>))}
    /\ NoCalls
    /\ NoRender

NextChain ==
    \/ ChainAttribute
    \/ ChainAttributeIf
    \/ ChainClass
    \/ ChainClassIf
    \/ ChainChildren
    \/ RenderHandle

SpecChain == InitChain /\ [][NextChain]_vars

(***************************************************************************)
(* SpecAttr: the setters of one element.  The program is NewTag(name,      *)
(* isVoid, nil), any number of Attribute and AttributeIf calls on it, and  *)
(* Render.                                                                 *)
(***************************************************************************)
InitAttr ==
    /\ heap \in {<<NewTag(k[1], k[2], <<>>)>> : k \in TagKinds}
    /\ NoCalls
    /\ NoRender

NextAttr ==
    \/ CallAttribute(Keys, Values)
    \/ CallAttributeIf(Keys, Values)
    \/ RenderOk

SpecAttr == InitAttr /\ [][NextAttr]_vars

(***************************************************************************)
(* SpecTyped: the typed setters of one input element.  The program is      *)
(* Input(), any number of Class, ClassIf, NameIf and IdIf calls, Render.   *)
(***************************************************************************)
InitTyped ==
    /\ heap = <<Input(<<>>)>>
    /\ NoCalls
    /\ NoRender

NextTyped ==
    \/ CallClass({<<"a">>, <<"b">>})
    \/ CallClassIf(Values)
    \/ CallNameIf(Values)
    \/ CallIdIf(Values)
    \/ RenderOk

SpecTyped == InitTyped /\ [][NextTyped]_vars

(***************************************************************************)
(* SpecVerbatim: attribute values that hold the characters of markup.      *)
(***************************************************************************)
Unsafe == {<<"\"">>, <<"<", "&">>, <<">">>, <<"a">>}

NextVerbatim ==
    \/ CallAttribute(Keys, Unsafe)
    \/ RenderOk

SpecVerbatim == InitAttr /\ [][NextVerbatim]_vars

(***************************************************************************)
(* SpecScript: the src setters of one script element.                      *)
(***************************************************************************)
InitScript ==
    /\ heap = <<Script(<<>>)>>
    /\ NoCalls
    /\ NoRender

NextScript ==
    \/ CallSrc(Values)
    \/ CallSrcIf(Values)
    \/ RenderOk

SpecScript == InitScript /\ [][NextScript]_vars

(***************************************************************************)
(* SpecCycle: Children with any node as argument.  The program builds a    *)
(* Tag or a Document over the parts, calls Children on it with the parts   *)
(* or the node itself, and renders it.                                     *)
(***************************************************************************)
NextCycle ==
    \/ CallNewTag
    \/ CallDocument
    \/ CallChildrenAny
    \/ RenderOk

SpecCycle == Init /\ [][NextCycle]_vars

(***************************************************************************)
(* SpecNest: the programs of Spec, with attribute values that hold the     *)
(* characters of markup.                                                   *)
(***************************************************************************)
Markup == {<<"a">>, <<">">>, <<"\"", ">", "<", "i", ">">>}

NextNest ==
    \/ CallGroup
    \/ CallDocument
    \/ CallNewTag
    \/ CallChildren
    \/ CallAttribute(Keys, Markup)
    \/ RenderOk

SpecNest == Init /\ [][NextNest]_vars

(***************************************************************************)
(* SpecText: the leaf nodes as functions of their content.  The program    *)
(* is Text(s).Render(w) or Raw(s).Render(w); s is drawn from the strings   *)
(* made of at most MaxPieces pieces, a piece being a character the escaper *)
(* replaces, an ordinary character, or the tail of an entity (so that the  *)
(* inputs hold entity-like substrings such as "&amp;").                    *)
(***************************************************************************)
Pieces ==
    {<<"&">>, <<"<">>, <<">">>, <<"\"">>, <<"'">>, <<"a">>, <<";">>,
     <<"a", "m", "p", ";">>, <<"l", "t", ";">>, <<"#", "3", "9", ";">>,
     <<"q", "u", "o", "t", ";">>}

Inputs == {Concat(ps) : ps \in SeqsUpTo(Pieces, MaxPieces)}

InitText ==
    /\ heap \in {<<Text(s)>> : s \in Inputs} \cup {<<Raw(s)>> : s \in Inputs}
    /\ NoCalls
    /\ NoRender

NextText == RenderOk

SpecText == InitText /\ [][NextText]_vars

(***************************************************************************)
(* Properties of the leaf nodes.                                           *)
(***************************************************************************)
TextRendered == root # NIL /\ heap[root].kind = "text"

RawRendered == root # NIL /\ heap[root].kind = "raw"

IsPrefixAt(e, s, i) == i + Len(e) - 1 <= Len(s) /\ SubSeq(s, i, i + Len(e) - 1) = e

\* The entities the escaper writes.
EscaperEntities ==
    {<<"&", "a", "m", "p", ";">>, <<"&", "l", "t", ";">>, <<"&", "g", "t", ";">>,
     <<"&", "#", "3", "4", ";">>, <<"&", "#", "3", "9", ";">>}

\* C1: the output of Text(s).Render holds none of the characters < > " ', and
\* each & in it begins an entity written by the escaper.
C1_TextOutputIsSafe ==
    TextRendered =>
        /\ \A i \in DOMAIN out : out[i] \notin {"<", ">", "\"", "'"}
        /\ \A i \in DOMAIN out :
              out[i] = "&" => \E e \in EscaperEntities : IsPrefixAt(e, out, i)

C1_Witness ==
    /\ TextRendered
    /\ ret = ErrNil
    /\ \E i, j, k \in DOMAIN heap[root].content :
          /\ heap[root].content[i] = "<"
          /\ heap[root].content[j] = "&"
          /\ heap[root].content[k] = "'"

\* The character table of the specification's section 4.2.
QuotTable(c) ==
    CASE c = "&"  -> <<"&", "a", "m", "p", ";">>
      [] c = "<"  -> <<"&", "l", "t", ";">>
      [] c = ">"  -> <<"&", "g", "t", ";">>
      [] c = "\"" -> <<"&", "q", "u", "o", "t", ";">>
      [] c = "'"  -> <<"&", "#", "3", "9", ";">>
      [] OTHER    -> <<c>>

\* The same table with the double quote as the numeric entity.
NumericTable(c) == IF c = "\"" THEN <<"&", "#", "3", "4", ";">> ELSE QuotTable(c)

\* C2 as stated: each character of s is mapped on its own, & to &amp;, < to
\* &lt;, > to &gt;, " to &quot;, ' to &#39;, any other character to itself.
C2_AsStated ==
    TextRendered =>
        out = Concat([i \in DOMAIN heap[root].content |->
                        QuotTable(heap[root].content[i])])

\* C2 as amended: the same, with " mapped to &#34;.
C2_EscapeTable ==
    TextRendered =>
        out = Concat([i \in DOMAIN heap[root].content |->
                        NumericTable(heap[root].content[i])])

C2_Witness ==
    /\ TextRendered
    /\ ret = ErrNil
    /\ \E i, j \in DOMAIN heap[root].content :
          /\ heap[root].content[i] = "\""
          /\ heap[root].content[j] \notin {"&", "<", ">", "\"", "'"}

\* HTML-unescaping (the standard library's html.UnescapeString, for the
\* entities over the model's characters): at an &, a named entity amp, lt, gt
\* or quot, or a decimal character reference of " or ', each closed by its
\* semicolon, becomes its character; any other & stays as it is.
UnescapeTable ==
    {<<<<"&", "a", "m", "p", ";">>, "&">>,
     <<<<"&", "l", "t", ";">>, "<">>,
     <<<<"&", "g", "t", ";">>, ">">>,
     <<<<"&", "q", "u", "o", "t", ";">>, "\"">>,
     <<<<"&", "#", "3", "4", ";">>, "\"">>,
     <<<<"&", "#", "3", "9", ";">>, "'">>}

RECURSIVE UnescapeFrom(_, _)
UnescapeFrom(s, i) ==
    IF i > Len(s)
    THEN <<>>
    ELSE LET hits == {e \in UnescapeTable : IsPrefixAt(e[1], s, i)}
         IN  IF hits = {}
             THEN <<s[i]>> \o UnescapeFrom(s, i + 1)
             ELSE LET e == CHOOSE x \in hits : TRUE
                  IN  <<e[2]>> \o UnescapeFrom(s, i + Len(e[1]))

UnescapeString(s) == UnescapeFrom(s, 1)

\* C3: unescaping the output of Text(s).Render gives back s, also when s
\* holds entity-like substrings.
C3_EscapeRoundTrip ==
    TextRendered => UnescapeString(out) = heap[root].content

C3_Witness ==
    /\ TextRendered
    /\ ret = ErrNil
    /\ \E i \in DOMAIN heap[root].content :
          IsPrefixAt(<<"&", "a", "m", "p", ";">>, heap[root].content, i)
    /\ \E i \in DOMAIN heap[root].content : heap[root].content[i] = "<"

\* C4: Raw(s).Render writes the characters of s as they are.
C4_RawIsVerbatim ==
    RawRendered =>
        /\ out = heap[root].content
        /\ writes = <<[frag |-> heap[root].content, ok |-> TRUE]>>
        /\ ret = ErrNil

C4_Witness ==
    /\ RawRendered
    /\ \E i, j \in DOMAIN out : out[i] = "<" /\ out[j] = "&"

(***************************************************************************)
(* Properties of elements and containers.                                  *)
(***************************************************************************)
Rendered == root # NIL

\* The outputs a node can produce when rendered on its own into a sink that
\* never fails (one for each order of iterating over the attribute maps).
OutputsOf(h, id) == {Render(h, id, Sink({}, ord), 1).out : ord \in Orders(h)}

RECURSIVE Products(_)
\* The concatenations of one element of each set of a sequence of sets.
Products(sets) ==
    IF sets = <<>>
    THEN {<<>>}
    ELSE {a \o b : a \in Head(sets), b \in Products(Tail(sets))}

\* The fragment of one attribute: a space, the key, =, the value in quotes.
Fragment(key, value) == <<" ">> \o key \o <<"=", "\"">> \o value \o <<"\"">>

\* The fragments of every entry of an attribute map, in each order.
Fragments(attributes) ==
    {Concat([i \in DOMAIN p |-> Fragment(p[i], attributes[p[i]])]) :
        p \in Perms(DOMAIN attributes)}

NonNil(children) == SelectSeq(children, LAMBDA c : c # NIL)

\* C5: a non-void Tag rendered into a sink that never fails writes <name, one
\* fragment per entry of the attribute map, >, the outputs of its non-nil
\* children in declaration order, and </name>, and nothing else.
C5_TagOutputFormat ==
    (Rendered /\ heap[root].kind = "tag" /\ ~heap[root].isVoid) =>
        LET e == heap[root]
            kids == NonNil(e.children)
        IN  /\ ret = ErrNil
            /\ \E fs \in Fragments(e.attributes),
                  body \in Products([i \in DOMAIN kids |-> OutputsOf(heap, kids[i])]) :
                  out = <<"<">> \o e.name \o fs \o <<">">> \o body
                          \o <<"<", "/">> \o e.name \o <<">">>

\* <p y="a" x="a"><b x="b">a&lt;</b>a</p>, the keys iterated as y, x.
C5_Witness ==
    /\ Rendered
    /\ heap[root].kind = "tag"
    /\ heap[root].children = <<3, 1>>
    /\ DOMAIN heap[root].attributes = Keys
    /\ out = <<"<", "p", " ", "y", "=", "\"", "a", "\"", " ", "x", "=", "\"", "a", "\"", ">",
               "<", "b", " ", "x", "=", "\"", "b", "\"", ">", "a", "&", "l", "t", ";",
               "<", "/", "b", ">", "a", "<", "/", "p", ">">>

\* C6: a void Tag renders as the same tag without children, <name, its
\* attributes and />, whatever its children and however they were set; no
\* child is rendered, no thunk or transform is invoked, no closing tag is
\* written and Render returns no error.
C6_VoidIgnoresChildren ==
    (Rendered /\ heap[root].kind = "tag" /\ heap[root].isVoid) =>
        LET e == heap[root]
            bare == [heap EXCEPT ![root] = Children(@, <<>>)]
        IN  /\ ret = ErrNil
            /\ out \in OutputsOf(bare, root)
            /\ \E fs \in Fragments(e.attributes) :
                  out = <<"<">> \o e.name \o fs \o <<"/", ">">>
            /\ \A i \in DOMAIN ev :
                  /\ ev[i][1] = "Render" => ev[i][2] = root
                  /\ ev[i][1] \notin {"thenFn", "elseFn", "transform"}
            /\ Cardinality({i \in DOMAIN ev : ev[i][1] = "Render"}) = 1

C6_Witness ==
    /\ Rendered
    /\ heap[root].kind = "tag"
    /\ heap[root].isVoid
    /\ heap[root].children = <<4, 5>>
    /\ call.op = "Children"
    /\ DOMAIN heap[root].attributes = {<<"x">>}
    /\ out = <<"<", "b", "r", " ", "x", "=", "\"", "a", "\"", "/", ">">>

\* C7: a Document, a Group or a non-void Tag whose children hold nil entries
\* renders without error, and as the same node with the nil entries removed.
C7_NilChildrenSkipped ==
    (/\ Rendered
     /\ \/ heap[root].kind \in {"document", "group"}
        \/ heap[root].kind = "tag" /\ ~heap[root].isVoid
     /\ NIL \in Range(heap[root].children)) =>
        LET dense == [heap EXCEPT ![root] = Children(@, NonNil(@.children))]
        IN  /\ ret = ErrNil
            /\ out \in OutputsOf(dense, root)
            /\ \A i \in DOMAIN ev : ev[i][1] = "Render" => ev[i][2] # NIL

C7_Witness ==
    /\ Rendered
    /\ heap[root].kind = "group"
    /\ heap[root].children = <<NIL, 2>>
    /\ out = <<"&", "l", "t", ";">>
    /\ ret = ErrNil

(***************************************************************************)
(* Properties of the setters (SpecAttr: the element is heap[1]).           *)
(***************************************************************************)
\* The Write calls of a render that wrote a fragment of the key.
FragmentWrites(key) ==
    {i \in DOMAIN writes :
        IsPrefixAt(<<" ">> \o key \o <<"=">>, writes[i].frag, 1)}

\* The map is the same after Attribute(key, "") as before it.
EmptyValueKeepsMap ==
    (call'.op = "Attribute" /\ call'.value = <<>>) =>
        heap'[1].attributes = heap[1].attributes

\* A key that the Attribute calls gave no value renders no fragment.
NoFragmentForUnset ==
    (Rendered /\ ~mixed) =>
        \A key \in Keys : key \notin DOMAIN last => FragmentWrites(key) = {}

\* C8: Attribute(key, "") leaves the attribute map as it is: a key not set
\* stays unset and renders no key= fragment, a key with a value keeps it.
C8_EmptyValueIsNoOp == [][EmptyValueKeepsMap]_vars /\ []NoFragmentForUnset

C8_Witness ==
    /\ call.op = "Attribute"
    /\ call.value = <<>>
    /\ call.old = <<"a">>
    /\ heap[1].attributes[call.key] = <<"a">>

\* C9: after Attribute calls only, the map holds for each key the value of
\* the latest call that gave the key a non-empty value, and Render writes
\* exactly one fragment for each key of the map.
C9_LastWriteWins ==
    ~mixed =>
        /\ heap[1].attributes = last
        /\ Rendered =>
              /\ \A key \in DOMAIN last :
                    /\ Cardinality(FragmentWrites(key)) = 1
                    /\ \A i \in FragmentWrites(key) :
                          writes[i].frag = Fragment(key, last[key])
              /\ Cardinality(UNION {FragmentWrites(key) : key \in Keys})
                    = Cardinality(DOMAIN last)

C9_Witness ==
    /\ Rendered
    /\ ~mixed
    /\ call.op = "Attribute"
    /\ call.key = <<"x">>
    /\ call.old = <<"a">>
    /\ call.value = <<"b">>
    /\ <<"y">> \in DOMAIN last
    /\ out = <<"<", "p", " ", "x", "=", "\"", "b", "\"", " ", "y", "=", "\"", "a", "\"",
               ">", "<", "/", "p", ">">>

\* C10 as stated: AttributeIf(cond, key, value) leaves the map as
\* Attribute(key, value) does when cond is true, and as it was when cond is
\* false, for every value, the empty string included.
C10_AttributeIfAppliesAttribute ==
    [][(call'.op = "AttributeIf" /\ root' = NIL) =>
          heap'[1].attributes =
              IF call'.cond
              THEN Attribute(heap[1], call'.key, call'.value).attributes
              ELSE heap[1].attributes]_vars

(***************************************************************************)
(* Properties of the typed setters (SpecTyped: the element is heap[1]).    *)
(***************************************************************************)
\* C11 as stated: a conditional setter called with a false condition leaves
\* the attribute map of the element as it was (ClassIf, NameIf, IdIf).
C11_FalseConditionKeepsMap ==
    [][(call'.op \in {"ClassIf", "NameIf", "IdIf"} /\ ~call'.cond) =>
          heap'[1].attributes = heap[1].attributes]_vars

(***************************************************************************)
(* Properties of the combinators (SpecCond).                               *)
(***************************************************************************)
\* How many times e occurs in the trace of the render.
Count(e) == Cardinality({i \in DOMAIN ev : ev[i] = e})

\* Render of node id alone, into a sink that never fails.
RenderAlone(h, id, ord) == Render(h, id, Sink({}, ord), 1)

\* The render wrote and traced what rendering node id alone does, after
\* entering the rendered node.
RendersAs(id) ==
    \E ord \in Orders(heap) :
        LET s == RenderAlone(heap, id, ord)
        IN  /\ out = s.out
            /\ writes = s.writes
            /\ ev = <<<<"Render", root>>>> \o s.ev

\* C12: no thunk is invoked before Render; rendering IfFunc(false, f) does
\* not invoke f; rendering IfElseFunc(false, f, g) does not invoke f and
\* rendering IfElseFunc(true, f, g) with f not nil does not invoke g; the
\* thunk of the branch taken is invoked exactly once.
C12_ThunksAreLazy ==
    /\ ~Rendered => ev = <<>>
    /\ (Rendered /\ heap[root].kind = "ifFunc") =>
          Count(<<"thenFn", root>>) =
              IF heap[root].condition /\ ~heap[root].thenFn.isNil THEN 1 ELSE 0
    /\ (Rendered /\ heap[root].kind = "ifElseFunc") =>
          LET n == heap[root]
          IN  /\ (n.condition /\ ~n.thenFn.isNil) =>
                    /\ Count(<<"thenFn", root>>) = 1
                    /\ Count(<<"elseFn", root>>) = 0
              /\ ~n.condition =>
                    /\ Count(<<"thenFn", root>>) = 0
                    /\ Count(<<"elseFn", root>>) = IF n.elseFn.isNil THEN 0 ELSE 1

C12_Witness ==
    /\ Rendered
    /\ heap[root] = IfElseFunc(FALSE, Func(1), Func(2))
    /\ ev = <<<<"Render", root>>, <<"elseFn", root>>, <<"Render", 2>>>>
    /\ out = <<"&", "l", "t", ";">>

\* The thunk of the branch a lazy combinator takes.
TakenFn(n) ==
    IF n.kind = "ifFunc" \/ n.condition THEN n.thenFn ELSE n.elseFn

\* C13 as stated: when the thunk of the branch taken returns nil, the lazy
\* combinator writes nothing and Render returns no error.
C13_NilFromThunkRendersNothing ==
    (/\ Rendered
     /\ \/ heap[root].kind = "ifFunc" /\ heap[root].condition
        \/ heap[root].kind = "ifElseFunc"
     /\ TakenFn(heap[root]) = Func(NIL)) =>
        /\ ret = ErrNil
        /\ out = <<>>

\* C14: rendering Map(items, f), with every f(item) a node, invokes f once
\* per item in the order of the items and writes the outputs of the nodes
\* f returned in that order, and nothing else.
C14_MapPreservesOrder ==
    (/\ Rendered
     /\ heap[root].kind = "map"
     /\ \A k \in DOMAIN heap[root].items :
           heap[root].transform.ret[heap[root].items[k]] # NIL) =>
        LET items == heap[root].items
            f == heap[root].transform.ret
        IN  /\ ret = ErrNil
            /\ SelectSeq(ev, LAMBDA e : e[1] = "transform" /\ e[2] = root)
                  = [k \in DOMAIN items |-> <<"transform", root, items[k]>>]
            /\ out \in Products([k \in DOMAIN items |-> OutputsOf(heap, f[items[k]])])

C14_Witness ==
    /\ Rendered
    /\ heap[root] = Map(<<2, 1>>, Func([i \in Items |-> i]))
    /\ out = <<"&", "l", "t", ";", "a">>

\* C19: If(false, n) writes nothing, returns no error and does not render
\* n; If(true, n) renders n and nothing else; IfElse(c, a, b) renders a and
\* nothing else when c is true, b and nothing else when c is false.
C19_ConditionSelectsBranch ==
    /\ (Rendered /\ heap[root].kind = "if" /\ ~heap[root].condition) =>
          /\ ret = ErrNil
          /\ writes = <<>>
          /\ ev = <<<<"Render", root>>>>
    /\ (Rendered /\ heap[root].kind = "if" /\ heap[root].condition
           /\ heap[root].then # NIL) =>
          /\ ret = ErrNil
          /\ RendersAs(heap[root].then)
    /\ (Rendered /\ heap[root].kind = "ifElse") =>
          LET taken == IF heap[root].condition
                       THEN heap[root].then ELSE heap[root].else_
          IN  taken # NIL => (ret = ErrNil /\ RendersAs(taken))

C19_Witness ==
    /\ Rendered
    /\ heap[root] = IfElse(FALSE, 1, 3)
    /\ out = <<"<", "b", " ", "x", "=", "\"", "b", "\"", ">", "a", "&", "l", "t", ";",
               "<", "/", "b", ">">>

(***************************************************************************)
(* Properties of failures (SpecFail, SpecCond).                            *)
(***************************************************************************)
\* The Write calls of the render that the sink refused.
Refused == {i \in DOMAIN writes : ~writes[i].ok}

\* C15: when a write of the render fails, Render returns the error of the
\* first write that failed, and that write is the last one made: nothing is
\* written or retried after it.
C15_FailFast ==
    (Rendered /\ Refused # {}) =>
        /\ ret = ErrWrite
        /\ Refused = {Len(writes)}

\* <p>, then the write of the first child is refused
C15_Witness ==
    /\ Rendered
    /\ heap[root].kind = "tag"
    /\ heap[root].children = <<1, 2>>
    /\ Len(writes) = 3
    /\ writes[3] = [frag |-> <<"a">>, ok |-> FALSE]
    /\ out = <<"<", "p", ">">>
    /\ ret = ErrWrite

\* C18 as stated: Render into a sink whose writes all succeed returns no
\* error, whatever the tree.
C18_OnlyWriteFailures == (Rendered /\ Refused = {}) => ret = ErrNil

(***************************************************************************)
(* Properties of documents and of Children (Spec).                         *)
(***************************************************************************)
Doctype ==
    <<"<", "!", "D", "O", "C", "T", "Y", "P", "E", " ", "h", "t", "m", "l", ">">>

\* The outputs of the non-nil nodes of children, one after the other.
Bodies(children) ==
    Products([i \in DOMAIN NonNil(children) |-> OutputsOf(heap, NonNil(children)[i])])

\* C16: a Document writes the preamble first and once, then its children;
\* without children the output is the preamble alone.
C16_DoctypeFirstAndOnce ==
    (Rendered /\ heap[root].kind = "document") =>
        /\ ret = ErrNil
        /\ writes # <<>>
        /\ writes[1].frag = Doctype
        /\ Cardinality({i \in DOMAIN writes : writes[i].frag = Doctype}) = 1
        /\ out \in {Doctype \o body : body \in Bodies(heap[root].children)}
        /\ heap[root].children = <<>> => out = Doctype

C16_Witness ==
    /\ Rendered
    /\ heap[root] = Document(<<>>)
    /\ Len(writes) = 1
    /\ out = Doctype

\* C20: the children of a Document or Tag are those given to the latest
\* Children call, or to the constructor if Children was not called, and
\* they are the children rendered.
C20_ChildrenReplaces ==
    (heap[Len(heap)].kind \in {"tag", "document"}) =>
        LET n == heap[Len(heap)]
        IN  /\ n.children = given
            /\ (Rendered /\ n.kind = "document") =>
                  out \in {Doctype \o body : body \in Bodies(given)}
            /\ (Rendered /\ n.kind = "tag" /\ ~n.isVoid) =>
                  \E fs \in Fragments(n.attributes), body \in Bodies(given) :
                      out = <<"<">> \o n.name \o fs \o <<">">> \o body
                              \o <<"<", "/">> \o n.name \o <<">">>

C20_Witness ==
    /\ Rendered
    /\ call.op = "Children"
    /\ heap[root].kind = "document"
    /\ given = <<2, 1>>
    /\ out = Doctype \o <<"&", "l", "t", ";", "a">>

(***************************************************************************)
(* The order of the attribute fragments (SpecAttr).                        *)
(***************************************************************************)
\* C17 as stated: the fragments are written in the order in which the
\* attributes were set.  When the latest Attribute call set a key that had
\* no value, that key was set last: its fragment comes after the other's.
C17_FragmentsInSetOrder ==
    (/\ Rendered
     /\ ~mixed
     /\ call.op = "Attribute"
     /\ call.value # <<>>
     /\ call.old = <<>>
     /\ DOMAIN heap[1].attributes = Keys) =>
        \A i \in UNION {FragmentWrites(key) : key \in Keys \ {call.key}},
           j \in FragmentWrites(call.key) : i < j

(***************************************************************************)
(* Properties of fluent chains (SpecChain).                                *)
(***************************************************************************)
\* What the latest setter call does to the record n of its receiver.
Effect(n, c, children) ==
    CASE c.op = "Attribute"   -> Attribute(n, c.key, c.value)
      [] c.op = "AttributeIf" -> AttributeIf(n, c.cond, c.key, c.value)
      [] c.op = "Class"       -> Attribute(n, KeyClass, c.value)
      [] c.op = "ClassIf"     -> ClassIf(n, c.cond, c.value)
      [] c.op = "Children"    -> Children(n, children)

\* A setter call through any pointer the program holds changes the node
\* behind t, and returns t.
SetterActsOnReceiver ==
    (root' = NIL /\ call'.op # "none") =>
        /\ call'.ret = T
        /\ heap'[T] = Effect(heap[T], call', given')

\* C21: every setter mutates its receiver and returns it: the pointer
\* returned is the receiver, a mutation through either pointer changes the
\* one node, and rendering through either renders that node.
C21_SettersReturnReceiver ==
    /\ [][SetterActsOnReceiver]_vars
    /\ [](/\ Len(heap) = T
          /\ heap[T].children = given
          /\ Rendered => (root = T /\ out \in OutputsOf(heap, T)))

C21_Witness ==
    /\ Rendered
    /\ call.op = "Children"
    /\ call.ret = T
    /\ given = <<1>>
    /\ heap[T].kind = "tag"
    /\ heap[T].attributes = MapSet(MapSet(EmptyMap, <<"x">>, <<"b">>), KeyClass,
                                   <<"a", " ", "b">>)
    /\ ret = ErrNil

(***************************************************************************)
(* Properties of failed renders (SpecFail).                                *)
(***************************************************************************)
IsPrefix(p, s) == Len(p) <= Len(s) /\ SubSeq(s, 1, Len(p)) = p

\* s is p followed by a strict prefix of one of the sequences of fulls.
StopsWithin(s, p, fulls) ==
    /\ IsPrefix(p, s)
    /\ \E full \in fulls :
          /\ Len(s) - Len(p) < Len(full)
          /\ IsPrefix(SubSeq(s, Len(p) + 1, Len(s)), full)

\* C22: when the node made for an item of a Map fails to render, Render
\* returns the error at once: the failed write is the last one, the
\* transform was invoked for the items up to that one, in order, and for no
\* item after it, and the output ends inside that item's output.
C22_MapStopsAtFailure ==
    (Rendered /\ heap[root].kind = "map" /\ Refused # {}) =>
        LET items == heap[root].items
            f == heap[root].transform.ret
            called == SelectSeq(ev, LAMBDA e : e[1] = "transform" /\ e[2] = root)
            m == Len(called)
        IN  /\ ret = ErrWrite
            /\ Refused = {Len(writes)}
            /\ m \in 1..Len(items)
            /\ called = [k \in 1..m |-> <<"transform", root, items[k]>>]
            /\ \E done \in Products([k \in 1..(m - 1) |-> OutputsOf(heap, f[items[k]])]) :
                  StopsWithin(out, done, OutputsOf(heap, f[items[m]]))

\* the first item's node is written, the write of the second's is refused
C22_Witness ==
    /\ Rendered
    /\ heap[root] = Map(<<1, 2>>, Func([i \in Items |-> i]))
    /\ writes = <<[frag |-> <<"a">>, ok |-> TRUE],
                  [frag |-> <<"&", "l", "t", ";">>, ok |-> FALSE]>>
    /\ Count(<<"transform", root, 1>>) = 1
    /\ ret = ErrWrite

Min(S) == CHOOSE k \in S : \A j \in S : k <= j

\* C23: when the k-th write of a render fails, the sink holds the first
\* k - 1 fragments, which are the first k - 1 fragments, and so a prefix of
\* the output, of the same tree rendered into a sink that never fails.
C23_PartialOutputIsPrefix ==
    (Rendered /\ Refused # {}) =>
        LET k == Min(Refused)
        IN  /\ out = Concat([i \in 1..(k - 1) |-> writes[i].frag])
            /\ \E ord \in Orders(heap) :
                  LET s == RenderAlone(heap, root, ord)
                  IN  /\ Len(s.writes) >= k
                      /\ \A i \in 1..k : s.writes[i].frag = writes[i].frag
                      /\ IsPrefix(out, s.out)

\* <!DOCTYPE html><b x="b"> is in the sink, the write of a was refused
C23_Witness ==
    /\ Rendered
    /\ heap[root] = Document(<<3>>)
    /\ Refused = {5}
    /\ out = Doctype \o <<"<", "b", " ", "x", "=", "\"", "b", "\"", ">">>
    /\ ret = ErrWrite

\* No Tag of the heap has two attributes.
AtMostOneAttribute ==
    \A i \in DOMAIN heap :
        heap[i].kind = "tag" => Cardinality(DOMAIN heap[i].attributes) <= 1

\* C24: a Render call, failed or not, leaves every node as it was; so a
\* tree whose Tags have at most one attribute each has one output on a
\* sink that never fails, the output of every render of it.
C24_RenderIsReadOnly ==
    /\ [][root' # root => heap' = heap]_vars
    /\ []((Rendered /\ AtMostOneAttribute) =>
              /\ Cardinality(OutputsOf(heap, root)) = 1
              /\ Refused = {} => out \in OutputsOf(heap, root))

C24_Witness ==
    /\ Rendered
    /\ heap[root] = Attribute(NewTag(<<"p">>, FALSE, <<3, 1>>), <<"y">>, <<"a">>)
    /\ Refused = {6}
    /\ ret = ErrWrite

(***************************************************************************)
(* Attribute values in the output (SpecVerbatim).                          *)
(***************************************************************************)
\* C25: every attribute value is written as it is stored, between the
\* quotes of its fragment, whatever characters it holds.
C25_AttributeValuesVerbatim ==
    Rendered =>
        LET e == heap[root]
        IN  /\ \A key \in DOMAIN e.attributes :
                  \E i \in DOMAIN writes :
                      writes[i].frag = Fragment(key, e.attributes[key])
            /\ \E fs \in Fragments(e.attributes) :
                  out = <<"<">> \o e.name \o fs \o
                        (IF e.isVoid THEN <<"/", ">">>
                         ELSE <<">", "<", "/">> \o e.name \o <<">">>)

\* <p x=""" y="<&"></p>
C25_Witness ==
    /\ Rendered
    /\ out = <<"<", "p", " ", "x", "=", "\"", "\"", "\"", " ", "y", "=", "\"", "<", "&",
               "\"", ">", "<", "/", "p", ">">>

(***************************************************************************)
(* The src setters (SpecScript: the element is heap[1]).                   *)
(***************************************************************************)
\* C26 as stated: SrcIf(true, value) leaves the attribute map as Src(value)
\* does.
C26_SrcIfSetsSrc ==
    [][(call'.op = "SrcIf" /\ call'.cond) =>
          heap'[1].attributes = Src(heap[1], call'.value).attributes]_vars

(***************************************************************************)
(* Absent nodes and thunks (SpecCond).                                     *)
(***************************************************************************)
\* C27 as stated: rendering IfElseFunc(true, thenFn, elseFn) does not
\* invoke elseFn; it renders what thenFn returns, and nothing when thenFn
\* is nil.
C27_TrueNeverCallsElse ==
    (Rendered /\ heap[root].kind = "ifElseFunc" /\ heap[root].condition) =>
        /\ Count(<<"elseFn", root>>) = 0
        /\ heap[root].thenFn.isNil => (ret = ErrNil /\ writes = <<>>)
        /\ (~heap[root].thenFn.isNil /\ heap[root].thenFn.ret # NIL) =>
              out \in OutputsOf(heap, heap[root].thenFn.ret)

\* The node rendered holds nil where a node or a thunk is expected, and
\* the render comes to it.
AbsentPart ==
    LET n == heap[root]
    IN  \/ n.kind = "if" /\ n.condition /\ n.then = NIL
        \/ n.kind = "ifElse" /\ (IF n.condition THEN n.then ELSE n.else_) = NIL
        \/ /\ n.kind = "map"
           /\ ~n.transform.isNil
           /\ \E k \in DOMAIN n.items : n.transform.ret[n.items[k]] = NIL
        \/ n.kind = "ifFunc" /\ n.condition /\ n.thenFn.isNil
        \/ n.kind = "ifElseFunc" /\ ~n.condition /\ n.elseFn.isNil

\* C28 as stated: a render that comes to an absent node or thunk outside
\* a children list completes and returns no error.
C28_AbsentPartsAreSkipped == (Rendered /\ AbsentPart) => ret = ErrNil

(***************************************************************************)
(* The shape of the structure (SpecCycle).                                 *)
(***************************************************************************)
\* The nodes that node i holds in its children list.
ChildrenOf(h, i) ==
    IF "children" \in DOMAIN h[i] THEN Range(h[i].children) \ {NIL} ELSE {}

RECURSIVE Below(_, _, _)
\* The nodes reached from the nodes of S in at most n steps down.
Below(h, S, n) ==
    IF n = 0
    THEN S
    ELSE Below(h, S \cup UNION {ChildrenOf(h, i) : i \in S}, n - 1)

\* C29 as stated: no node is its own child or descendant, and Render ends.
C29_NoCycles ==
    /\ \A i \in DOMAIN heap :
          i \notin Below(heap, ChildrenOf(heap, i), Len(heap))
    /\ Rendered => ret # Overflow

(***************************************************************************)
(* Nesting of the output (SpecNest).  The output is read as a reader of    *)
(* HTML reads it, character by character: Step is one step of a scanner    *)
(* that follows start tags (with quoted attribute values), end tags and    *)
(* the doctype, and keeps the stack of the names of the tags opened and    *)
(* not yet closed.                                                         *)
(***************************************************************************)
Start == [mode |-> "text", stack |-> <<>>, name |-> <<>>, ok |-> TRUE]

Delims == {"<", ">", " ", "\"", "=", "/"}

Bad(s) == [s EXCEPT !.ok = FALSE]

Opened(s) == [s EXCEPT !.mode = "text", !.stack = Append(@, s.name)]

Closed(s) ==
    IF s.stack # <<>> /\ s.stack[Len(s.stack)] = s.name
    THEN [s EXCEPT !.mode = "text", !.stack = SubSeq(@, 1, Len(@) - 1)]
    ELSE Bad(s)

Step(s, c) ==
    IF ~s.ok THEN s
    ELSE CASE s.mode = "text" ->
                IF c = "<" THEN [s EXCEPT !.mode = "lt"] ELSE s
           [] s.mode = "lt" ->
                IF c = "/" THEN [s EXCEPT !.mode = "close", !.name = <<>>]
                ELSE IF c = "!" THEN [s EXCEPT !.mode = "decl"]
                ELSE IF c \in Delims THEN Bad(s)
                ELSE [s EXCEPT !.mode = "open", !.name = <<c>>]
           [] s.mode = "open" ->
                IF c = ">" THEN Opened(s)
                ELSE IF c = " " THEN [s EXCEPT !.mode = "attrs"]
                ELSE IF c = "/" THEN [s EXCEPT !.mode = "slash"]
                ELSE IF c \in Delims THEN Bad(s)
                ELSE [s EXCEPT !.name = Append(@, c)]
           [] s.mode = "attrs" ->
                IF c = "\"" THEN [s EXCEPT !.mode = "quoted"]
                ELSE IF c = ">" THEN Opened(s)
                ELSE IF c = "/" THEN [s EXCEPT !.mode = "slash"]
                ELSE IF c = "<" THEN Bad(s)
                ELSE s
           [] s.mode = "quoted" ->
                IF c = "\"" THEN [s EXCEPT !.mode = "attrs"] ELSE s
           [] s.mode = "slash" ->
                IF c = ">" THEN [s EXCEPT !.mode = "text"] ELSE Bad(s)
           [] s.mode = "close" ->
                IF c = ">" THEN Closed(s)
                ELSE IF c \in Delims THEN Bad(s)
                ELSE [s EXCEPT !.name = Append(@, c)]
           [] s.mode = "decl" ->
                IF c = ">" THEN [s EXCEPT !.mode = "text"] ELSE s

RECURSIVE Scan(_, _)
\* The scanner's state after the characters of frag.
Scan(s, frag) == IF frag = <<>> THEN s ELSE Scan(Step(s, Head(frag)), Tail(frag))

RECURSIVE ScanWrites(_, _)
\* The scanner's state after each write of ws.
ScanWrites(s, ws) ==
    IF ws = <<>>
    THEN <<>>
    ELSE LET s1 == Scan(s, Head(ws).frag)
         IN  <<s1>> \o ScanWrites(s1, Tail(ws))

RECURSIVE Stacks(_, _, _)
\* The non-void Tag ancestors being rendered, outermost first, at each write
\* of a render of node id that begins under the tags of stack: a Tag is on
\* the stack from the > of its start tag to its end tag.
Stacks(h, id, stack) ==
    LET n == h[id]
        Each(ids, under) ==
            Concat([i \in DOMAIN ids |->
                       IF ids[i] = NIL THEN <<>> ELSE Stacks(h, ids[i], under)])
    IN  CASE n.kind = "text" -> <<stack>>
          [] n.kind = "ifFunc" ->
               IF n.condition /\ ~n.thenFn.isNil /\ n.thenFn.ret # NIL
               THEN Stacks(h, n.thenFn.ret, stack)
               ELSE <<>>
          [] n.kind = "map" ->
               Each([k \in DOMAIN n.items |-> n.transform.ret[n.items[k]]], stack)
          [] n.kind = "group" -> Each(n.children, stack)
          [] n.kind = "document" -> <<stack>> \o Each(n.children, stack)
          [] n.kind = "tag" ->
               LET start == [i \in 1..(1 + Cardinality(DOMAIN n.attributes)) |-> stack]
                   inner == Append(stack, n.name)
               IN  IF n.isVoid
                   THEN start \o <<stack>>
                   ELSE start \o <<inner>> \o Each(n.children, inner) \o <<stack>>

NoRaw == \A i \in DOMAIN heap : heap[i].kind # "raw"

\* After every write the scanner is in order and the tags it holds open are
\* the Tag ancestors being rendered; at the end nothing is left open.
WellNested ==
    LET tr == ScanWrites(Start, writes)
    IN  /\ \A k \in DOMAIN tr : tr[k].ok
        /\ [k \in DOMAIN tr |-> tr[k].stack] = Stacks(heap, root, <<>>)
        /\ tr # <<>> => (tr[Len(tr)].mode = "text" /\ tr[Len(tr)].stack = <<>>)

\* C30 as stated: the output of a successful render of a tree without Raw
\* nodes is well nested.
C30_WellNested == (Rendered /\ ret = ErrNil /\ NoRaw) => WellNested

\* No attribute value of the heap holds a double quote.
QuoteFree ==
    \A i \in DOMAIN heap :
        heap[i].kind = "tag" =>
            \A key \in DOMAIN heap[i].attributes :
                "\"" \notin Range(heap[i].attributes[key])

\* C30, amended: the output of a successful render of a tree without Raw
\* nodes and without a double quote in an attribute value is well nested;
\* void tags open nothing and get no end tag.
C30_WellNestedQuoteFree ==
    (Rendered /\ ret = ErrNil /\ NoRaw /\ QuoteFree) => WellNested

\* <p y=">"><b x="b">a&lt;</b>a</p>
C30_Witness ==
    /\ Rendered
    /\ heap[root] = Attribute(NewTag(<<"p">>, FALSE, <<3, 1>>), <<"y">>, <<">">>)
    /\ ret = ErrNil
    /\ WellNested
=============================================================================
